---- MODULE Spec2Model ----
(***************************************************************************)
(* Model of the SnapCam signalling server (server/index.js, kept here as   *)
(* src/unnamed/part_000) and of the negotiation logic of its two clients   *)
(* (laptop page: src/nextjs-app/src/lib/socket.ts, mobile page:            *)
(* src/unnamed/part_002).                                                  *)
(***************************************************************************)
EXTENDS Integers, Sequences, FiniteSets, TLC

\* ------------------------------------------------------------------ bounds
MaxConns == 2          \* socket ids the transport hands out in one run
MaxCands == 3          \* candidates one page receives, and gathers, in one run
MaxDescs == 1          \* offers and answers one page receives in one run
MaxCtls == 1           \* control commands one page receives in one run
MaxOffers == 2         \* offers the laptop page receives in a run of SpecAnswering
MaxCommands == 2       \* control commands the mobile page receives in a run of SpecCamera

\* ------------------------------------------------------------ JS values
\* A JavaScript value as the handlers see it: tagged by typeof.
Null      == [t |-> "null"]
Undefined == [t |-> "undefined"]
Str(s)    == [t |-> "string", s |-> s]
Num(n)    == [t |-> "number", n |-> n]
Obj(n)    == [t |-> "object", n |-> n]

\* !v  (falsy: null, undefined, "", 0)
Falsy(v) ==
  \/ v.t = "null"
  \/ v.t = "undefined"
  \/ v.t = "string" /\ v.s = <<>>
  \/ v.t = "number" /\ v.n = 0

\* String.prototype.toUpperCase, one character
UpperChar(ch) ==
  CASE ch = "a" -> "A"
    [] ch = "b" -> "B"
    [] OTHER    -> ch

toUpperCase(s) == [i \in 1..Len(s) |-> UpperChar(s[i])]

IsSpace(ch) == ch = " "

\* String.prototype.trim: drop leading and trailing white space
RECURSIVE trimStart(_)
trimStart(s) ==
  IF s # <<>> /\ IsSpace(Head(s)) THEN trimStart(Tail(s)) ELSE s

RECURSIVE trimEnd(_)
trimEnd(s) ==
  IF s # <<>> /\ IsSpace(s[Len(s)]) THEN trimEnd(SubSeq(s, 1, Len(s) - 1)) ELSE s

trim(s) == trimEnd(trimStart(s))

\* a normalization that trims only
Normalize_TrimOnly(s) == trim(s)

\* roomId.toUpperCase().trim()
Normalize(s) == trim(toUpperCase(s))

\* ------------------------------------------------------------ inputs
Conns == 1..MaxConns
NoId  == 0                         \* undefined slot / null target

Roles == {"laptop", "mobile"}
OtherRole(r) == IF r = "laptop" THEN "mobile" ELSE "laptop"

\* room codes a client may put in a join
RawCodes ==
  { Str(<<"a">>), Str(<<" ", "A">>), Str(<<" ">>),
    Str(<<>>), Null, Num(7) }

Payloads == { Undefined, Obj(1) }

RelayEvents   == {"offer", "answer", "ice-candidate"}
ControlEvents == {"flip-camera", "change-quality"}

\* ------------------------------------------------------------ state
VARIABLES
  rooms,      \* the Map roomId -> { laptopId, mobileId }
  sock,       \* per socket id: st (fresh/connected/gone), data.roomId, data.role
  emitted,    \* what the last handler emitted: <<[to, ev, payload]>>
  ep,         \* per page (laptop, mobile): socket, peer connection, closures
  s2c,        \* per page: events on their way from the server, in order
  c2s,        \* per page: events on their way to the server, in order
  connOf,     \* per page: the socket id the server knows it by
  lastPairing, \* per socket id: the last pairing notification sent to it
  cam         \* the capture streams of the mobile page and the refs that
              \* describe them

serverVars == <<rooms, sock, emitted>>
clientVars == <<ep, s2c, c2s, connOf, lastPairing, cam>>
vars == <<rooms, sock, emitted, ep, s2c, c2s, connOf, lastPairing, cam>>

NoRole == "none"

\* const fresh = { laptopId: undefined, mobileId: undefined }
FreshRoom == [laptop |-> NoId, mobile |-> NoId]

\* getRoomState: the room for roomId, created empty when absent
getRoomState(rms, roomId) ==
  IF roomId \in DOMAIN rms THEN rms
  ELSE [k \in DOMAIN rms \cup {roomId} |-> IF k = roomId THEN FreshRoom ELSE rms[k]]

\* otherPeer(roomState, socketId)
otherPeer(roomState, socketId) ==
  IF roomState.laptop # NoId /\ roomState.laptop # socketId THEN roomState.laptop
  ELSE IF roomState.mobile # NoId /\ roomState.mobile # socketId THEN roomState.mobile
  ELSE NoId

\* cleanupRoomIfEmpty(roomId)
cleanupRoomIfEmpty(rms, roomId) ==
  IF roomId \notin DOMAIN rms THEN rms
  ELSE IF rms[roomId].laptop = NoId /\ rms[roomId].mobile = NoId
       THEN [k \in DOMAIN rms \ {roomId} |-> rms[k]]
       ELSE rms

Msg(to, ev, payload) == [to |-> to, ev |-> ev, payload |-> payload]

\* the notification a joiner of role r gets / its counterpart gets
ReadyFor(r) == IF r = "laptop" THEN "mobile-ready" ELSE "laptop-ready"

ServerInit ==
  /\ rooms = << >>
  /\ sock = [c \in Conns |-> [st |-> "fresh", roomId |-> Null, role |-> NoRole]]
  /\ emitted = << >>

\* io.on("connection"): socket.data.roomId = null; socket.data.role = null
\* (the transport hands out a new socket id per connection: ids are numbered
\* in the order in which they connect)
ConnectionH(c) ==
  /\ sock[c].st = "fresh"
  /\ \A d \in Conns : d < c => sock[d].st # "fresh"
  /\ sock' = [sock EXCEPT ![c] = [st |-> "connected", roomId |-> Null, role |-> NoRole]]
  /\ emitted' = << >>
  /\ UNCHANGED rooms

\* a join that keeps an occupied slot (first writer wins)
joinRooms_KeepOccupant(rms, c, role, normalized) ==
  LET withRoom == getRoomState(rms, normalized)
  IN  IF withRoom[normalized][role] # NoId THEN withRoom
      ELSE [withRoom EXCEPT ![normalized][role] = c]

\* the slot assignment and the notifications of join, lines 84-102
joinRooms(rms, c, role, normalized) ==
  LET withRoom == getRoomState(rms, normalized)
  IN  [withRoom EXCEPT ![normalized][role] = c]

\* a join that notifies the joiner only
joinEmits_JoinerOnly(rms, c, role, normalized) ==
  LET other == rms[normalized][OtherRole(role)]
  IN  IF other # NoId
      THEN << Msg(c, ReadyFor(role), Undefined) >>
      ELSE << >>

joinEmits(rms, c, role, normalized) ==
  LET other == rms[normalized][OtherRole(role)]
  IN  IF other # NoId
      THEN << Msg(c, ReadyFor(role), Undefined),
              Msg(other, ReadyFor(OtherRole(role)), Undefined) >>
      ELSE << >>

\* a validation that tests the type only
joinIgnored_TypeOnly(roomId) == roomId.t # "string"

\* if (!roomId || typeof roomId !== "string") return;
joinIgnored(roomId) == Falsy(roomId) \/ roomId.t # "string"

\* const join = (role, roomId) => ...
joinH(c, role, roomId) ==
  /\ sock[c].st = "connected"
  /\ IF joinIgnored(roomId)
     THEN /\ emitted' = << >>
          /\ UNCHANGED <<rooms, sock>>
     ELSE LET normalized == Normalize(roomId.s)
              newRooms == joinRooms(rooms, c, role, normalized)
          IN  /\ rooms' = newRooms
              /\ sock' = [sock EXCEPT ![c].roomId = Str(normalized), ![c].role = role]
              /\ emitted' = joinEmits(newRooms, c, role, normalized)

\* const relay = (eventName, payload, skipLog) => ...
relayEmits(c, eventName, payload) ==
  LET roomId == sock[c].roomId
  IN  IF Falsy(roomId) THEN << >>
      ELSE IF roomId.s \notin DOMAIN rooms THEN << >>
      ELSE LET targetId == otherPeer(rooms[roomId.s], c)
           IN  IF targetId = NoId THEN << >>
               ELSE << Msg(targetId, eventName, payload) >>

\* socket.on("offer" | "answer" | "ice-candidate")
relayH(c, eventName, payload) ==
  /\ sock[c].st = "connected"
  /\ emitted' = relayEmits(c, eventName, payload)
  /\ UNCHANGED <<rooms, sock>>

\* payload ?? null
Coalesce(payload) == IF payload.t \in {"undefined", "null"} THEN Null ELSE payload

\* a control handler without its role gate
controlGate_Open(role) == TRUE

\* the role gate of the control handlers: socket.data.role !== "laptop"
controlGate(role) == role = "laptop"

\* socket.on("flip-camera") and socket.on("change-quality"), same body
controlEmits(c, eventName, payload) ==
  LET roomId == sock[c].roomId
  IN  IF Falsy(roomId) THEN << >>
      ELSE IF roomId.s \notin DOMAIN rooms THEN << >>
      ELSE IF ~controlGate(sock[c].role) THEN << >>
      ELSE IF rooms[roomId.s].mobile = NoId THEN << >>
      ELSE << Msg(rooms[roomId.s].mobile, eventName, Coalesce(payload)) >>

controlH(c, eventName, payload) ==
  /\ sock[c].st = "connected"
  /\ emitted' = controlEmits(c, eventName, payload)
  /\ UNCHANGED <<rooms, sock>>

\* the two slot clears of the disconnect handler, lines 173-174
releaseSlots(roomState, c) ==
  [laptop |-> IF roomState.laptop = c THEN NoId ELSE roomState.laptop,
   mobile |-> IF roomState.mobile = c THEN NoId ELSE roomState.mobile]

\* the counterpart the disconnect handler notifies, lines 167-171
disconnectTarget(rms, roomId, c) == otherPeer(rms[roomId], c)

\* a socket that has disconnected serves no further event; its data is dead
Gone == [st |-> "gone", roomId |-> Null, role |-> NoRole]

\* socket.on("disconnect")
disconnectH(c) ==
  /\ sock[c].st = "connected"
  /\ sock' = [sock EXCEPT ![c] = Gone]
  /\ LET roomId == sock[c].roomId
     IN  IF Falsy(roomId) \/ roomId.s \notin DOMAIN rooms
         THEN /\ emitted' = << >>
              /\ UNCHANGED rooms
         ELSE LET targetId == disconnectTarget(rooms, roomId.s, c)
                  cleared == [rooms EXCEPT ![roomId.s] = releaseSlots(rooms[roomId.s], c)]
              IN  /\ emitted' = IF targetId # NoId
                                THEN << Msg(targetId, "peer-disconnected", Undefined) >>
                                ELSE << >>
                  /\ rooms' = cleanupRoomIfEmpty(cleared, roomId.s)

\* ------------------------------------------------------------ the two pages
\* LaptopPage (socket.ts) and MobilePage (part_002): what their socket
\* handlers keep in refs and closures, and the RTCPeerConnection behind pcRef.
Pages == {"laptop", "mobile"}

\* session descriptions and candidates as the handlers see them
Desc(type, good) == [t |-> "object", type |-> type, good |-> good]
IceCand    == [t |-> "object", candidate |-> "c", type |-> "none"]
IceNoCand  == [t |-> "object", candidate |-> "null", type |-> "none"]
IcePayloads == {IceCand, IceNoCand, Null}

Ev(ev, payload) == [ev |-> ev, payload |-> payload]

\* usePeer: pcRef.current = null; the page's refs before init() has run
PageInit ==
  [ sock |-> "idle",          \* the socket.io client: idle, connected, closed
    pc |-> "none",            \* pcRef.current: none or open
    sig |-> "stable",         \* pc.signalingState
    local |-> FALSE,          \* pc.localDescription is set
    remote |-> FALSE,         \* pc.remoteDescription is set
    curRemote |-> FALSE,      \* pc.currentRemoteDescription is set
    applied |-> << >>,        \* the addIceCandidate calls made on pc, in order
    iceQueue |-> << >>,       \* const iceQueue
    held |-> {},              \* the candidates that went through iceQueue
    addFailed |-> FALSE,      \* an addIceCandidate call on pc has rejected
    nCand |-> 0,              \* candidates received so far (numbers them)
    nDesc |-> 0,              \* offers and answers received so far
    tasks |-> {},             \* handler runs suspended at an await
    stream |-> FALSE,         \* streamRef.current is set
    tracksAdded |-> FALSE,    \* tracksAddedRef.current
    makingOffer |-> FALSE,    \* let makingOffer
    negPending |-> FALSE,     \* a negotiationneeded event is due
    gotReady |-> FALSE,       \* mobile-ready / laptop-ready was received
    sentOffer |-> 0,          \* offers emitted
    sentAnswer |-> 0,         \* answers emitted
    gathered |-> 0,           \* local candidates emitted
    offerDue |-> FALSE,       \* laptop-ready came with media attached and no
                              \* offer was emitted since
    nCtl |-> 0,               \* flip-camera / change-quality received so far
    nOffer |-> 0,             \* offers received so far
    badOffer |-> FALSE,       \* a malformed offer was received
    overlapped |-> FALSE,     \* an offer came while an offer handler was running
    outTrack |-> 0 ]          \* the stream whose tracks the senders carry:
                              \* 0 the stream of init(), k the stream that
                              \* the k-th control command acquired

\* the handler runs that outlive the connection: promises of a closed
\* connection never settle, the getUserMedia of a control handler does
Surviving(tasks) == { t \in tasks : t.at = "getCamera" }

\* ---- the capture streams of the mobile page. A stream is known by the
\* facing mode and the quality it was acquired with.
StreamOf(facing, quality) == [facing |-> facing, quality |-> quality]
NoStream == [facing |-> "none", quality |-> "none"]

\* facingRef, qualityRef and streamRef as the page is constructed
CamInit ==
  [ facing |-> "user",        \* facingRef.current
    quality |-> "720p",       \* qualityRef.current
    active |-> NoStream,      \* streamRef.current
    held |-> {},              \* per control handler run: the stream it requested
    loose |-> 0,              \* streams acquired, not stopped, in no ref and
                              \* in no handler run
    flips |-> 0,              \* flip-camera commands received, modulo 2
    lastQuality |-> "720p",   \* the quality of the last change-quality received
    failed |-> FALSE ]        \* a getUserMedia call has rejected

\* facingRef.current === "user" ? "environment" : "user"
Toggle(facing) == IF facing = "user" THEN "environment" ELSE "user"

\* payload?.quality === "360p" || payload?.quality === "1080p" ? payload.quality : "720p"
QualityPayload(q) == [t |-> "object", quality |-> q]

nextQuality(payload) ==
  IF payload.t = "object" /\ "quality" \in DOMAIN payload
     /\ payload.quality \in {"360p", "1080p"}
  THEN payload.quality ELSE "720p"

\* init(): streamRef.current = await getCameraStream("user", "720p")
camOpened(c) == [c EXCEPT !.active = StreamOf("user", "720p")]

\* socket.on("flip-camera") up to its await: nextFacing is computed from
\* facingRef, then getCameraStream(nextFacing, qualityRef.current) is called
camOnFlip(c, id) ==
  [c EXCEPT !.flips = (@ + 1) % 2,
            !.held = @ \cup {[id |-> id, kind |-> "flip-camera",
                              stream |-> StreamOf(Toggle(c.facing), c.quality)]}]

\* socket.on("change-quality") up to its await: nextQuality is computed from
\* the payload, then getCameraStream(facingRef.current, nextQuality) is called
camOnQuality(c, id, payload) ==
  [c EXCEPT !.lastQuality = nextQuality(payload),
            !.held = @ \cup {[id |-> id, kind |-> "change-quality",
                              stream |-> StreamOf(c.facing, nextQuality(payload))]}]

\* cleanup(): the tracks of streamRef.current are stopped and the ref is
\* cleared; a handler run suspended at replaceTrack never resumes and the
\* stream it holds is neither stored nor stopped
camCleanup(c, tasks) ==
  LET kept == { h \in c.held : \E t \in Surviving(tasks) : t.h = "control" /\ t.id = h.id }
  IN  [c EXCEPT !.active = NoStream,
                !.held = kept,
                !.loose = @ + Cardinality(c.held \ kept)]

\* the refs after await getCameraStream(...) of a control handler resolved:
\* facingRef.current = nextFacing, or qualityRef.current = nextQuality
camRecorded(c, h) ==
  IF h.kind = "flip-camera" THEN [c EXCEPT !.facing = h.stream.facing]
  ELSE [c EXCEPT !.quality = h.stream.quality]

\* the end of applyNewStream: prev = streamRef.current; streamRef.current =
\* newStream; the tracks of prev are stopped
camStored(c, h) == [c EXCEPT !.active = h.stream, !.held = @ \ {h}]

\* await getCameraStream(...) of control handler run h settles on page state
\* s: a rejection leaves only the error status; otherwise the ref is set and
\* applyNewStream runs: without a connection it returns and the new stream
\* is dropped as it is, with senders it awaits replaceTrack, without senders
\* it stores the stream
camAcquired(c, s, h, ok) ==
  IF ~ok THEN [c EXCEPT !.held = @ \ {h}, !.failed = TRUE]
  ELSE LET c1 == camRecorded(c, h)
       IN  IF s.pc = "none" THEN [c1 EXCEPT !.held = @ \ {h}, !.loose = @ + 1]
           ELSE IF s.tracksAdded THEN c1
           ELSE camStored(c1, h)

ClientInit ==
  /\ ep = [p \in Pages |-> PageInit]
  /\ s2c = [p \in Pages |-> << >>]
  /\ c2s = [p \in Pages |-> << >>]
  /\ connOf = [p \in Pages |-> NoId]
  /\ lastPairing = [c \in Conns |-> "none"]
  /\ cam = CamInit

Task(id, h, at, good) == [id |-> id, h |-> h, at |-> at, good |-> good]

\* createPeer: if (pcRef.current) return pcRef.current; else a new connection
createPeer(s) == IF s.pc = "none" THEN [s EXCEPT !.pc = "open"] ELSE s

\* closePeer: pcRef.current = null; pc.close(). The descriptions and the
\* candidates applied belong to the connection that is dropped.
closePeer(s) ==
  [s EXCEPT !.pc = "none", !.sig = "stable", !.local = FALSE, !.remote = FALSE,
            !.curRemote = FALSE, !.applied = << >>, !.negPending = FALSE,
            !.addFailed = FALSE]

\* resetSocket: socket.disconnect(); socket = null
resetSocket(s) == [s EXCEPT !.sock = "closed"]

\* cleanup of the laptop page (socket.ts 105-113) and of the mobile page
\* (part_002 78-87)
cleanup(p, s) ==
  IF p = "laptop"
  THEN [resetSocket(closePeer(s)) EXCEPT !.tasks = Surviving(@)]
  ELSE [resetSocket(closePeer(s)) EXCEPT !.tasks = Surviving(@), !.tracksAdded = FALSE,
                                         !.stream = FALSE]

\* !payload || (payload.candidate == null && payload.type !== "candidate")
badCandidate(payload) ==
  \/ Falsy(payload)
  \/ payload.candidate = "null" /\ payload.type # "candidate"

\* a candidate handler that never queues
mustQueue_Never(s) == FALSE

\* if (!pc.remoteDescription) { iceQueue.push(payload); return; }
mustQueue(s) == ~s.remote

\* socket.on("ice-candidate") of either page
onIceCandidate(s, payload) ==
  LET s1 == createPeer(s)
      k  == s1.nCand + 1
  IN  IF badCandidate(payload) THEN s1
      ELSE IF mustQueue(s1)
      THEN [s1 EXCEPT !.nCand = k, !.iceQueue = Append(@, k), !.held = @ \cup {k}]
      ELSE [s1 EXCEPT !.nCand = k, !.applied = Append(@, k)]

\* a handler run that calls pc.setRemoteDescription and awaits it
startSetRemote(s, h, payload) ==
  LET s1 == createPeer(s)
      id == s1.nDesc + 1
  IN  [s1 EXCEPT !.nDesc = id,
                 !.tasks = @ \cup {Task(id, h, "setRemote", payload.good)}]

\* socket.on("offer") of the laptop page, up to its first await
onOffer(s, payload) ==
  [startSetRemote(s, "offer", payload) EXCEPT
     !.nOffer = @ + 1,
     !.badOffer = @ \/ ~payload.good,
     !.overlapped = @ \/ {t \in s.tasks : t.h = "offer"} # {}]

\* socket.on("answer") of the laptop page: only without currentRemoteDescription
onAnswerLaptop(s, payload) ==
  LET s1 == createPeer(s)
  IN  IF ~s1.curRemote THEN startSetRemote(s1, "answerL", payload)
      ELSE [s1 EXCEPT !.nDesc = @ + 1]

\* socket.on("answer") of the mobile page, up to its first await
onAnswerMobile(s, payload) == startSetRemote(s, "answerM", payload)

\* a laptop page that attaches media on mobile-ready and so negotiates
onMobileReady_AddsTracks(s) ==
  [createPeer(s) EXCEPT !.gotReady = TRUE, !.negPending = TRUE]

\* socket.on("mobile-ready") of the laptop page
onMobileReady(s) == [createPeer(s) EXCEPT !.gotReady = TRUE]

\* a laptop-ready handler that creates an offer itself, every time
onLaptopReady_OffersDirectly(s) ==
  LET s1 == [createPeer(s) EXCEPT !.gotReady = TRUE, !.offerDue = s.stream,
                                  !.tracksAdded = TRUE]
      id == s1.sentOffer + Cardinality(s1.tasks) + 1
  IN  [s1 EXCEPT !.makingOffer = TRUE,
                 !.tasks = @ \cup {Task(id, "neg", "createOffer", TRUE)}]

\* socket.on("laptop-ready") of the mobile page: sets onnegotiationneeded and
\* adds the tracks once, which makes the connection need negotiation
onLaptopReady(s) ==
  LET s1 == [createPeer(s) EXCEPT !.gotReady = TRUE, !.offerDue = s.stream]
  IN  IF ~s1.stream THEN s1
      ELSE IF ~s1.tracksAdded
           THEN [s1 EXCEPT !.negPending = TRUE, !.tracksAdded = TRUE]
           ELSE s1

\* socket.on("flip-camera") and socket.on("change-quality") of the mobile
\* page, up to await getCameraStream(...)
onControl(s) ==
  LET id == s.nCtl + 1
  IN  [s EXCEPT !.nCtl = id,
                !.tasks = @ \cup {Task(id, "control", "getCamera", TRUE)}]

\* the handler a page runs for an event of the server; an event without a
\* handler on that page is ignored
handle(p, s, m) ==
  CASE m.ev = "ice-candidate"                    -> onIceCandidate(s, m.payload)
    [] m.ev = "peer-disconnected"                -> cleanup(p, s)
    [] m.ev = "offer" /\ p = "laptop"            -> onOffer(s, m.payload)
    [] m.ev = "answer" /\ p = "laptop"           -> onAnswerLaptop(s, m.payload)
    [] m.ev = "answer" /\ p = "mobile"           -> onAnswerMobile(s, m.payload)
    [] m.ev = "mobile-ready" /\ p = "laptop"     -> onMobileReady(s)
    [] m.ev = "laptop-ready" /\ p = "mobile"     -> onLaptopReady(s)
    [] m.ev \in ControlEvents /\ p = "mobile"    -> onControl(s)
    [] OTHER                                     -> s

\* ---- the awaits of the handlers: each settles in a later task of the page
SetTask(s, t, at) == [s EXCEPT !.tasks = (@ \ {t}) \cup {[t EXCEPT !.at = at]}]
EndTask(s, t)     == [s EXCEPT !.tasks = @ \ {t}]

\* an offer handler that stops after draining the queue
afterDrain_Stops(s, t) == EndTask(s, t)

\* after drainIceQueue: the laptop's offer handler goes on to createAnswer,
\* the mobile's answer handler is done
afterDrain(s, t) ==
  IF t.h = "offer" THEN SetTask(s, t, "createAnswer") ELSE EndTask(s, t)

\* drainIceQueue, one turn of its loop: shift the head and call
\* pc.addIceCandidate on it, or leave the loop when the queue is empty
drainIceQueue(s, t) ==
  IF s.iceQueue # << >>
  THEN SetTask([s EXCEPT !.iceQueue = Tail(@), !.applied = Append(@, Head(s.iceQueue))],
               t, "addIce")
  ELSE afterDrain(s, t)

\* a drain loop without its try/catch: the rejection ends the handler
addIceSettled_Throws(s, t, ok) ==
  IF ok THEN drainIceQueue(s, t) ELSE EndTask([s EXCEPT !.addFailed = TRUE], t)

\* try { await pc.addIceCandidate(c); } catch { /* ignore */ }: the loop
\* goes on whether the call resolved or rejected
addIceSettled(s, t, ok) ==
  IF ok THEN drainIceQueue(s, t) ELSE drainIceQueue([s EXCEPT !.addFailed = TRUE], t)

\* RTCPeerConnection.setRemoteDescription: an offer is accepted in stable or
\* have-remote-offer, an answer in have-local-offer; a malformed one never
remoteAccepted(s, t) ==
  /\ t.good
  /\ IF t.h = "offer" THEN s.sig \in {"stable", "have-remote-offer"}
     ELSE s.sig = "have-local-offer"

remoteApplied(s, t) ==
  IF t.h = "offer"
  THEN [s EXCEPT !.remote = TRUE, !.sig = "have-remote-offer"]
  ELSE [s EXCEPT !.remote = TRUE, !.sig = "stable", !.curRemote = TRUE]

\* await pc.setRemoteDescription(...) settles; the handler runs on to its next
\* await (a rejection ends the laptop's handlers, and the mobile's in catch)
setRemoteSettled(s, t) ==
  IF ~remoteAccepted(s, t) THEN EndTask(s, t)
  ELSE IF t.h = "answerL" THEN EndTask(remoteApplied(s, t), t)
  ELSE drainIceQueue(remoteApplied(s, t), t)

\* await pc.createAnswer() settles: it needs a remote offer
createAnswerSettled(s, t) ==
  IF s.sig = "have-remote-offer" THEN SetTask(s, t, "setLocal") ELSE EndTask(s, t)

\* await pc.createOffer() settles
createOfferSettled(s, t) == SetTask(s, t, "setLocal")

\* await pc.setLocalDescription(...) settles: the answer of the laptop's offer
\* handler, or the offer of the mobile's onnegotiationneeded (finally:
\* makingOffer = false)
setLocalSettled(s, t) ==
  IF t.h = "offer"
  THEN IF s.sig = "have-remote-offer"
       THEN EndTask([s EXCEPT !.sig = "stable", !.local = TRUE, !.curRemote = TRUE,
                              !.sentAnswer = @ + 1], t)
       ELSE EndTask(s, t)
  ELSE IF s.sig \in {"stable", "have-local-offer"}
       THEN EndTask([s EXCEPT !.sig = "have-local-offer", !.local = TRUE,
                              !.sentOffer = @ + 1, !.makingOffer = FALSE,
                              !.offerDue = FALSE], t)
       ELSE EndTask([s EXCEPT !.makingOffer = FALSE], t)

\* socket.emit of the settled setLocalDescription
setLocalEmits(s, t) ==
  IF t.h = "offer"
  THEN IF s.sig = "have-remote-offer" THEN << Ev("answer", Desc("answer", TRUE)) >> ELSE << >>
  ELSE IF s.sig \in {"stable", "have-local-offer"}
       THEN << Ev("offer", Desc("offer", TRUE)) >> ELSE << >>

\* applyNewStream with senders that need negotiation (addTrack instead of
\* replaceTrack)
applyNewStream_AddTrack(s, t) ==
  IF s.pc = "none" THEN EndTask(s, t)
  ELSE EndTask([s EXCEPT !.outTrack = t.id, !.negPending = TRUE], t)

\* applyNewStream up to its first await: without a connection it returns;
\* with senders it awaits sender.replaceTrack(videoTrack); without senders it
\* only stores the stream
applyNewStream(s, t) ==
  IF s.pc = "none" THEN EndTask(s, t)
  ELSE IF s.tracksAdded THEN SetTask(s, t, "replaceVideo")
  ELSE EndTask([s EXCEPT !.stream = TRUE], t)

\* await getCameraStream(...) settles in a control handler: on a rejection the
\* catch only reports; otherwise applyNewStream(s)
getCameraSettled(s, t, ok) ==
  IF ok THEN applyNewStream(s, t) ELSE EndTask(s, t)

\* await sender.replaceTrack(videoTrack) settles: the video sender carries the
\* new track; next await sender.replaceTrack(audioTrack)
replaceVideoSettled(s, t) ==
  SetTask([s EXCEPT !.outTrack = t.id], t, "replaceAudio")

\* await sender.replaceTrack(audioTrack) settles: streamRef.current = newStream
replaceAudioSettled(s, t) == EndTask([s EXCEPT !.stream = TRUE], t)

\* socket.on("disconnect") of either page: only setStatus(...)
onDisconnect(s) == [s EXCEPT !.sock = "down"]

\* pc.onnegotiationneeded: if (makingOffer) return; makingOffer = true;
\* await pc.createOffer()
onnegotiationneeded(s) ==
  LET s1 == [s EXCEPT !.negPending = FALSE]
      id == s1.sentOffer + 1
  IN  IF s1.makingOffer THEN s1
      ELSE [s1 EXCEPT !.makingOffer = TRUE,
                      !.tasks = @ \cup {Task(id, "neg", "createOffer", TRUE)}]

\* init() of a page up to the join: the mobile page first acquires its camera
\* stream; socket.connect(); socket.emit("join-laptop" | "join-mobile", roomId)
pageOpened(p, s) ==
  IF p = "mobile" THEN [s EXCEPT !.sock = "connected", !.stream = TRUE]
  ELSE [s EXCEPT !.sock = "connected"]

JoinEvent(p) == IF p = "laptop" THEN "join-laptop" ELSE "join-mobile"

\* the code both pages of one session join with
SessionCode == Str(<<"A">>)

\* a step of page p: its new state and what it emits to the server
PageStep(p, s, outs) ==
  /\ ep' = [ep EXCEPT ![p] = s]
  /\ c2s' = [c2s EXCEPT ![p] = @ \o outs]

\* ---- the steps of a page
ReceiveStep(p) ==
  /\ ep[p].sock = "connected"
  /\ s2c[p] # << >>
  /\ s2c' = [s2c EXCEPT ![p] = Tail(@)]
  /\ PageStep(p, handle(p, ep[p], Head(s2c[p])), << >>)
  /\ UNCHANGED <<serverVars, connOf, lastPairing>>

Receive(p) == ReceiveStep(p) /\ UNCHANGED cam

SetRemoteSettles(p, t) ==
  /\ ep[p].pc = "open" /\ t \in ep[p].tasks /\ t.at = "setRemote"
  /\ PageStep(p, setRemoteSettled(ep[p], t), << >>)
  /\ UNCHANGED <<serverVars, s2c, connOf, lastPairing, cam>>

AddIceSettles(p, t, ok) ==
  /\ ep[p].pc = "open" /\ t \in ep[p].tasks /\ t.at = "addIce"
  /\ PageStep(p, addIceSettled(ep[p], t, ok), << >>)
  /\ UNCHANGED <<serverVars, s2c, connOf, lastPairing, cam>>

CreateAnswerSettles(p, t) ==
  /\ ep[p].pc = "open" /\ t \in ep[p].tasks /\ t.at = "createAnswer"
  /\ PageStep(p, createAnswerSettled(ep[p], t), << >>)
  /\ UNCHANGED <<serverVars, s2c, connOf, lastPairing, cam>>

CreateOfferSettles(p, t) ==
  /\ ep[p].pc = "open" /\ t \in ep[p].tasks /\ t.at = "createOffer"
  /\ PageStep(p, createOfferSettled(ep[p], t), << >>)
  /\ UNCHANGED <<serverVars, s2c, connOf, lastPairing, cam>>

SetLocalSettles(p, t) ==
  /\ ep[p].pc = "open" /\ t \in ep[p].tasks /\ t.at = "setLocal"
  /\ PageStep(p, setLocalSettled(ep[p], t), setLocalEmits(ep[p], t))
  /\ UNCHANGED <<serverVars, s2c, connOf, lastPairing, cam>>

\* the negotiationneeded event fires once the connection is stable
NegotiationNeeded(p) ==
  /\ ep[p].pc = "open" /\ ep[p].negPending /\ ep[p].sig = "stable"
  /\ PageStep(p, onnegotiationneeded(ep[p]), << >>)
  /\ UNCHANGED <<serverVars, s2c, connOf, lastPairing, cam>>

\* pc.onicecandidate: a local candidate, gathered once a local description is set
IceGathered(p) ==
  /\ ep[p].pc = "open" /\ ep[p].local /\ ep[p].sock = "connected"
  /\ ep[p].gathered < MaxCands
  /\ PageStep(p, [ep[p] EXCEPT !.gathered = @ + 1], << Ev("ice-candidate", IceCand) >>)
  /\ UNCHANGED <<serverVars, s2c, connOf, lastPairing, cam>>

\* the awaits of the control handlers of the mobile page
GetCameraStep(p, t, ok) ==
  /\ t \in ep[p].tasks /\ t.at = "getCamera"
  /\ PageStep(p, getCameraSettled(ep[p], t, ok), << >>)
  /\ UNCHANGED <<serverVars, s2c, connOf, lastPairing>>

GetCameraSettles(p, t, ok) == GetCameraStep(p, t, ok) /\ UNCHANGED cam

ReplaceVideoSettles(p, t) ==
  /\ ep[p].pc = "open" /\ t \in ep[p].tasks /\ t.at = "replaceVideo"
  /\ PageStep(p, replaceVideoSettled(ep[p], t), << >>)
  /\ UNCHANGED <<serverVars, s2c, connOf, lastPairing, cam>>

ReplaceAudioStep(p, t) ==
  /\ ep[p].pc = "open" /\ t \in ep[p].tasks /\ t.at = "replaceAudio"
  /\ PageStep(p, replaceAudioSettled(ep[p], t), << >>)
  /\ UNCHANGED <<serverVars, s2c, connOf, lastPairing>>

ReplaceAudioSettles(p, t) == ReplaceAudioStep(p, t) /\ UNCHANGED cam

\* the transport of the page closes: the client drops what was on its way and
\* runs its "disconnect" handler
TransportCloses(p) ==
  /\ ep[p].sock = "connected"
  /\ s2c' = [s2c EXCEPT ![p] = << >>]
  /\ PageStep(p, onDisconnect(ep[p]), << >>)
  /\ UNCHANGED <<serverVars, connOf, lastPairing, cam>>

\* ---- the server on its own: any connected socket may send any event
Connection(c) == ConnectionH(c) /\ UNCHANGED clientVars

join(c, role, roomId) == joinH(c, role, roomId) /\ UNCHANGED clientVars

relay(c, eventName, payload) == relayH(c, eventName, payload) /\ UNCHANGED clientVars

control(c, eventName, payload) == controlH(c, eventName, payload) /\ UNCHANGED clientVars

disconnect(c) == disconnectH(c) /\ UNCHANGED clientVars

Init == ServerInit /\ ClientInit

Next ==
  \/ \E c \in Conns : Connection(c)
  \/ \E c \in Conns, role \in Roles, roomId \in RawCodes : join(c, role, roomId)
  \/ \E c \in Conns, ev \in RelayEvents, p \in Payloads : relay(c, ev, p)
  \/ \E c \in Conns, ev \in ControlEvents, p \in Payloads : control(c, ev, p)
  \/ \E c \in Conns : disconnect(c)

Spec == Init /\ [][Next]_vars

\* The same server driven only by the codes the repository's own clients
\* send: the allocator's upper-case letters, already trimmed by the pages.
ClientCodes == { Str(<<"A">>), Str(<<"B">>) }

NextClientCodes ==
  \/ \E c \in Conns : Connection(c)
  \/ \E c \in Conns, role \in Roles, roomId \in ClientCodes : join(c, role, roomId)
  \/ \E c \in Conns, ev \in RelayEvents, p \in Payloads : relay(c, ev, p)
  \/ \E c \in Conns, ev \in ControlEvents, p \in Payloads : control(c, ev, p)
  \/ \E c \in Conns : disconnect(c)

SpecClientCodes == Init /\ [][NextClientCodes]_vars

\* The registry under joins and disconnects only, with every code of RawCodes
NextCodes ==
  \/ \E c \in Conns : Connection(c)
  \/ \E c \in Conns, role \in Roles, roomId \in RawCodes : join(c, role, roomId)
  \/ \E c \in Conns : disconnect(c)

SpecCodes == Init /\ [][NextCodes]_vars

\* ---- the registry together with what each socket was last told about its
\* counterpart (SpecPairing)
PairingOf(ev) == IF ev = "peer-disconnected" THEN "gone" ELSE "ready"

\* io.to(id).emit of mobile-ready, laptop-ready and peer-disconnected
RECURSIVE Told(_, _)
Told(out, last) ==
  IF out = << >> THEN last
  ELSE Told(Tail(out), [last EXCEPT ![Head(out).to] = PairingOf(Head(out).ev)])

joinTold(c, role, roomId) ==
  /\ joinH(c, role, roomId)
  /\ lastPairing' = Told(emitted', lastPairing)
  /\ UNCHANGED <<ep, s2c, c2s, connOf, cam>>

disconnectTold(c) ==
  /\ disconnectH(c)
  /\ lastPairing' = Told(emitted', lastPairing)
  /\ UNCHANGED <<ep, s2c, c2s, connOf, cam>>

NextPairing ==
  \/ \E c \in Conns : Connection(c)
  \/ \E c \in Conns, role \in Roles, roomId \in ClientCodes : joinTold(c, role, roomId)
  \/ \E c \in Conns : disconnectTold(c)

SpecPairing == Init /\ [][NextPairing]_vars

\* ---- one page against a server that may send it any event (SpecPage)
ReadyEvent(p) == IF p = "laptop" THEN "mobile-ready" ELSE "laptop-ready"

\* what the server can relay or send to a page
ServerEvents(p) ==
  { Ev(ReadyEvent(p), Undefined), Ev("peer-disconnected", Undefined) }
    \cup { Ev("offer", Desc("offer", g)) : g \in BOOLEAN }
    \cup { Ev("answer", Desc("answer", g)) : g \in BOOLEAN }
    \cup { Ev("ice-candidate", c) : c \in IcePayloads }
    \cup (IF p = "mobile"
          THEN { Ev("flip-camera", Null), Ev("change-quality", Obj(1)) }
          ELSE {})

\* the event starts a handler that counts against the bounds of the run
CountsAsCand(m) == m.ev = "ice-candidate" /\ ~badCandidate(m.payload)
CountsAsDesc(p, m) == (m.ev = "offer" /\ p = "laptop") \/ m.ev = "answer"
CountsAsCtl(m) == m.ev \in ControlEvents

PageOpenStep(p) ==
  /\ \A q \in Pages : ep[q].sock = "idle"
  /\ PageStep(p, pageOpened(p, ep[p]), << Ev(JoinEvent(p), SessionCode) >>)
  /\ UNCHANGED <<serverVars, s2c, connOf, lastPairing>>

PageOpens(p) == PageOpenStep(p) /\ UNCHANGED cam

ServerSends(p, m) ==
  /\ ep[p].sock = "connected"
  /\ s2c[p] = << >>
  /\ CountsAsCand(m) => ep[p].nCand < MaxCands
  /\ CountsAsDesc(p, m) => ep[p].nDesc < MaxDescs
  /\ CountsAsCtl(m) => ep[p].nCtl < MaxCtls
  /\ s2c' = [s2c EXCEPT ![p] = Append(@, m)]
  /\ UNCHANGED <<serverVars, ep, c2s, connOf, lastPairing, cam>>

NextPage ==
  \/ \E p \in Pages : PageOpens(p)
  \/ \E p \in Pages : \E m \in ServerEvents(p) : ServerSends(p, m)
  \/ \E p \in Pages : Receive(p)
  \/ \E p \in Pages : \E t \in ep[p].tasks : SetRemoteSettles(p, t)
  \/ \E p \in Pages : \E t \in ep[p].tasks : \E ok \in BOOLEAN : AddIceSettles(p, t, ok)
  \/ \E p \in Pages : \E t \in ep[p].tasks : CreateAnswerSettles(p, t)
  \/ \E p \in Pages : \E t \in ep[p].tasks : CreateOfferSettles(p, t)
  \/ \E p \in Pages : \E t \in ep[p].tasks : SetLocalSettles(p, t)
  \/ \E p \in Pages : NegotiationNeeded(p)
  \/ \E p \in Pages : IceGathered(p)
  \/ \E p \in Pages : \E t \in ep[p].tasks : \E ok \in BOOLEAN : GetCameraSettles(p, t, ok)
  \/ \E p \in Pages : \E t \in ep[p].tasks : ReplaceVideoSettles(p, t)
  \/ \E p \in Pages : \E t \in ep[p].tasks : ReplaceAudioSettles(p, t)
  \/ \E p \in Pages : TransportCloses(p)

SpecPage == Init /\ [][NextPage]_vars

\* ---- the laptop page against a server that relays it any negotiation
\* event, several offers among them (SpecAnswering)
NegotiationEvents(p) ==
  { m \in ServerEvents(p) : m.ev \notin ControlEvents }

ServerRelays(p, m) ==
  /\ ep[p].sock = "connected"
  /\ s2c[p] = << >>
  /\ CountsAsCand(m) => ep[p].nCand < MaxCands
  /\ CountsAsDesc(p, m) => ep[p].nDesc < MaxOffers
  /\ s2c' = [s2c EXCEPT ![p] = Append(@, m)]
  /\ UNCHANGED <<serverVars, ep, c2s, connOf, lastPairing, cam>>

NextAnswering ==
  \/ PageOpens("laptop")
  \/ \E m \in NegotiationEvents("laptop") : ServerRelays("laptop", m)
  \/ Receive("laptop")
  \/ \E t \in ep["laptop"].tasks : SetRemoteSettles("laptop", t)
  \/ \E t \in ep["laptop"].tasks : \E ok \in BOOLEAN : AddIceSettles("laptop", t, ok)
  \/ \E t \in ep["laptop"].tasks : CreateAnswerSettles("laptop", t)
  \/ \E t \in ep["laptop"].tasks : SetLocalSettles("laptop", t)

SpecAnswering == Init /\ [][NextAnswering]_vars

\* ---- the mobile page, its capture streams and the commands that replace
\* them (SpecCamera)
CameraEvents ==
  { Ev("laptop-ready", Undefined), Ev("peer-disconnected", Undefined),
    Ev("flip-camera", Null),
    Ev("change-quality", QualityPayload("360p")), Ev("change-quality", Null) }

HeldBy(t) == CHOOSE h \in cam.held : h.id = t.id

CameraOpens ==
  /\ PageOpenStep("mobile")
  /\ cam' = camOpened(cam)

\* the server sends the mobile page an event; a control command comes from
\* a laptop of the room, after the laptop-ready that its join caused
CameraIsSent(m) ==
  /\ ep["mobile"].sock = "connected"
  /\ s2c["mobile"] = << >>
  /\ CountsAsCtl(m) => ep["mobile"].gotReady /\ ep["mobile"].nCtl < MaxCommands
  /\ s2c' = [s2c EXCEPT !["mobile"] = Append(@, m)]
  /\ UNCHANGED <<serverVars, ep, c2s, connOf, lastPairing, cam>>

CameraReceives ==
  /\ ReceiveStep("mobile")
  /\ LET m == Head(s2c["mobile"])
         s == ep["mobile"]
     IN  cam' = CASE m.ev = "flip-camera"       -> camOnFlip(cam, s.nCtl + 1)
                  [] m.ev = "change-quality"    -> camOnQuality(cam, s.nCtl + 1, m.payload)
                  [] m.ev = "peer-disconnected" -> camCleanup(cam, s.tasks)
                  [] OTHER                      -> cam

CameraAcquired(t, ok) ==
  /\ GetCameraStep("mobile", t, ok)
  /\ cam' = camAcquired(cam, ep["mobile"], HeldBy(t), ok)

CameraVideoReplaced(t) == ReplaceVideoSettles("mobile", t)

CameraAudioReplaced(t) ==
  /\ ReplaceAudioStep("mobile", t)
  /\ cam' = camStored(cam, HeldBy(t))

NextCamera ==
  \/ CameraOpens
  \/ \E m \in CameraEvents : CameraIsSent(m)
  \/ CameraReceives
  \/ \E t \in ep["mobile"].tasks : \E ok \in BOOLEAN : CameraAcquired(t, ok)
  \/ \E t \in ep["mobile"].tasks : CameraVideoReplaced(t)
  \/ \E t \in ep["mobile"].tasks : CameraAudioReplaced(t)

SpecCamera == Init /\ [][NextCamera]_vars

\* ---- both pages and the server, one session (SpecSession)
PageOf(c) == IF c \in {connOf[p] : p \in Pages}
             THEN CHOOSE p \in Pages : connOf[p] = c ELSE "nobody"

RECURSIVE EventsFor(_, _)
EventsFor(out, c) ==
  IF out = << >> THEN << >>
  ELSE IF Head(out).to = c
       THEN << Ev(Head(out).ev, Head(out).payload) >> \o EventsFor(Tail(out), c)
       ELSE EventsFor(Tail(out), c)

\* a delivery that puts what was emitted ahead of what is on its way
Delivered_Prepends(out) ==
  [p \in Pages |-> IF connOf[p] = NoId THEN s2c[p] ELSE EventsFor(out, connOf[p]) \o s2c[p]]

\* io.to(id).emit / socket.emit: each page gets, in order, what was emitted to
\* its socket id
Delivered(out) ==
  [p \in Pages |-> IF connOf[p] = NoId THEN s2c[p] ELSE s2c[p] \o EventsFor(out, connOf[p])]

\* socket.connect() reaches the server, which runs io.on("connection")
PageConnects(p) ==
  /\ ep[p].sock = "idle"
  /\ \E c \in Conns : ConnectionH(c) /\ connOf' = [connOf EXCEPT ![p] = c]
  /\ PageStep(p, pageOpened(p, ep[p]), << Ev(JoinEvent(p), SessionCode) >>)
  /\ UNCHANGED <<s2c, lastPairing, cam>>

\* the server runs the handler of the next event of page p
ServerHandles(p) ==
  /\ c2s[p] # << >>
  /\ LET m == Head(c2s[p])
         c == connOf[p]
     IN  CASE m.ev = "join-laptop"   -> joinH(c, "laptop", m.payload)
           [] m.ev = "join-mobile"   -> joinH(c, "mobile", m.payload)
           [] m.ev \in RelayEvents   -> relayH(c, m.ev, m.payload)
           [] m.ev \in ControlEvents -> controlH(c, m.ev, m.payload)
  /\ c2s' = [c2s EXCEPT ![p] = Tail(@)]
  /\ s2c' = Delivered(emitted')
  /\ UNCHANGED <<ep, connOf, lastPairing, cam>>

NextSession ==
  \/ \E p \in Pages : PageConnects(p)
  \/ \E p \in Pages : ServerHandles(p)
  \/ \E p \in Pages : Receive(p)
  \/ \E p \in Pages : \E t \in ep[p].tasks : SetRemoteSettles(p, t)
  \/ \E p \in Pages : \E t \in ep[p].tasks : \E ok \in BOOLEAN : AddIceSettles(p, t, ok)
  \/ \E p \in Pages : \E t \in ep[p].tasks : CreateAnswerSettles(p, t)
  \/ \E p \in Pages : \E t \in ep[p].tasks : CreateOfferSettles(p, t)
  \/ \E p \in Pages : \E t \in ep[p].tasks : SetLocalSettles(p, t)
  \/ \E p \in Pages : NegotiationNeeded(p)
  \/ \E p \in Pages : IceGathered(p)

\* the event loops run every handler that is due and the transport delivers
\* every event it carries
FairSession ==
  \A p \in Pages :
    /\ WF_vars(PageConnects(p))
    /\ WF_vars(ServerHandles(p))
    /\ WF_vars(Receive(p))
    /\ WF_vars(\E t \in ep[p].tasks : SetRemoteSettles(p, t))
    /\ WF_vars(\E t \in ep[p].tasks : \E ok \in BOOLEAN : AddIceSettles(p, t, ok))
    /\ WF_vars(\E t \in ep[p].tasks : CreateAnswerSettles(p, t))
    /\ WF_vars(\E t \in ep[p].tasks : CreateOfferSettles(p, t))
    /\ WF_vars(\E t \in ep[p].tasks : SetLocalSettles(p, t))
    /\ WF_vars(NegotiationNeeded(p))
    /\ WF_vars(IceGathered(p))

SpecSession == Init /\ [][NextSession]_vars /\ FairSession

\* ------------------------------------------------------------ helpers of the claims
RECURSIVE CountMsgs(_, _, _)
CountMsgs(seq, to, evs) ==
  IF seq = << >> THEN 0
  ELSE (IF Head(seq).to = to /\ Head(seq).ev \in evs THEN 1 ELSE 0)
       + CountMsgs(Tail(seq), to, evs)

ReadyEvents == {"mobile-ready", "laptop-ready"}

AllCodes == RawCodes \cup ClientCodes

\* the normalized form of every code that passes the validation of join
NormalizedCode ==
  [roomId \in {r \in AllCodes : r.t = "string"} |-> Normalize(roomId.s)]

ValidCode(roomId) == ~Falsy(roomId) /\ roomId.t = "string"

\* the bindings a valid join can leave in socket.data.roomId, and the codes
\* that lead to each
Bindings == { Str(NormalizedCode[r]) : r \in {x \in AllCodes : ValidCode(x)} }

CodesNormalizingTo ==
  [b \in Bindings |-> {r \in AllCodes : ValidCode(r) /\ Str(NormalizedCode[r]) = b}]

\* the valid codes roomId for which this step is join(c, sock'[c].role, roomId)
\* (after a valid join the socket is bound to the role and the normalized code)
JoinsOfStep(c) ==
  IF /\ sock[c].st = "connected" /\ sock'[c].st = "connected"
     /\ (emitted' = << >> \/ emitted'[1].ev \in ReadyEvents)
     /\ sock'[c].roomId \in Bindings
  THEN {roomId \in CodesNormalizingTo[sock'[c].roomId] : join(c, sock'[c].role, roomId)}
  ELSE {}

\* the slots of the registry that hold connection c
SlotsOf(rms, c) == { <<n, r>> \in (DOMAIN rms) \X Roles : rms[n][r] = c }

\* ------------------------------------------------------------ C1
\* C1: every room present in the registry has at least one role slot held by
\* a connection that has not disconnected (once the last occupant of a room
\* has disconnected, the room is absent from the registry).
C1_RoomsHaveLiveOccupant ==
  \A n \in DOMAIN rooms :
    \E r \in Roles : rooms[n][r] # NoId /\ sock[rooms[n][r]].st = "connected"

\* ------------------------------------------------------------ C2
\* C2: after a connection has disconnected, its identifier appears in no role
\* slot of any room of the registry.
C2_NoDanglingIdentifier ==
  \A c \in Conns :
    sock[c].st = "gone" => SlotsOf(rooms, c) = {}

\* ------------------------------------------------------------ C3
\* C3: when a connection that holds a slot disconnects while a different
\* connection holds the other role of the same room, that survivor is sent
\* exactly one peer-disconnected; when no slot it holds has another occupant,
\* nothing is sent.
C3_SurvivorNotifiedOnce ==
  [][ \A c \in Conns :
        disconnect(c) =>
          /\ \A sl \in SlotsOf(rooms, c) :
               LET o == rooms[sl[1]][OtherRole(sl[2])]
               IN  (o # NoId /\ o # c) =>
                     CountMsgs(emitted', o, {"peer-disconnected"}) = 1
          /\ (/\ SlotsOf(rooms, c) # {}
              /\ \A sl \in SlotsOf(rooms, c) :
                   rooms[sl[1]][OtherRole(sl[2])] \in {NoId, c})
               => emitted' = << >> ]_vars

\* ------------------------------------------------------------ C4
\* C4: a join after which both role slots of the room are occupied sends
\* exactly one peer-ready to the joiner and exactly one to the occupant of
\* the other role, and nothing else; a join after which the other role slot
\* is empty sends nothing.
C4_PeerReadyOncePerSide ==
  [][ \A c \in Conns : \A roomId \in JoinsOfStep(c) :
        LET o == rooms'[NormalizedCode[roomId]][OtherRole(sock'[c].role)]
        IN  IF o # NoId
            THEN /\ CountMsgs(emitted', c, ReadyEvents) = 1
                 /\ CountMsgs(emitted', o, ReadyEvents) = 1
                 /\ Len(emitted') = 2
            ELSE emitted' = << >> ]_vars

\* ------------------------------------------------------------ C5
\* C5: a join for a role in a room makes the joiner the occupant of that
\* role, whoever held the slot before (last writer wins): after A and then B
\* join the same room as initiator, the registry reports B and not A.
C5_LastWriterWins ==
  [][ \A c \in Conns : \A roomId \in JoinsOfStep(c) :
        rooms'[NormalizedCode[roomId]][sock'[c].role] = c ]_vars

\* a connection still bound to a role of a room whose slot now names another
\* connection bound to the same role: the second join displaced the first
C5_Witness ==
  \E a \in Conns, b \in Conns :
    /\ a # b
    /\ sock[a].st = "connected" /\ sock[b].st = "connected"
    /\ sock[a].roomId = Str(<<"A">>) /\ sock[a].role = "laptop"
    /\ sock[b].roomId = Str(<<"A">>) /\ sock[b].role = "laptop"
    /\ <<"A">> \in DOMAIN rooms
    /\ rooms[<<"A">>].laptop = b

\* ------------------------------------------------------------ C6
\* C6: a flip-camera or change-quality is forwarded only when its sender is
\* bound to the initiator role and the sender's room has a responder
\* occupant, and then to that occupant only; sent by a responder-bound or
\* unbound connection it is dropped.
C6_ControlGated ==
  [][ \A c \in Conns, ev \in ControlEvents, p \in Payloads :
        control(c, ev, p) =>
          /\ emitted' # << >> =>
               /\ sock[c].role = "laptop"
               /\ ~Falsy(sock[c].roomId)
               /\ sock[c].roomId.s \in DOMAIN rooms
               /\ rooms[sock[c].roomId.s].mobile # NoId
               /\ emitted' = << Msg(rooms[sock[c].roomId.s].mobile, ev, Coalesce(p)) >>
          /\ sock[c].role # "laptop" => emitted' = << >> ]_vars

\* a control command has just been forwarded to a responder
C6_Witness ==
  /\ Len(emitted) = 1
  /\ emitted[1].ev \in ControlEvents
  /\ sock[emitted[1].to].role = "mobile"

\* ------------------------------------------------------------ C7
\* C7: an offer, answer or candidate is forwarded, same kind and payload, to
\* exactly the occupant of the role other than the sender's in the sender's
\* bound room; with no room binding or no such occupant it goes to nobody.
C7_RelayToOtherRole ==
  [][ \A c \in Conns, ev \in RelayEvents, p \in Payloads :
        relay(c, ev, p) =>
          LET roomId == sock[c].roomId
              o == IF roomId.t = "string" /\ roomId.s \in DOMAIN rooms
                   THEN rooms[roomId.s][OtherRole(sock[c].role)]
                   ELSE NoId
          IN  IF o # NoId /\ o # c
              THEN emitted' = << Msg(o, ev, p) >>
              ELSE emitted' = << >> ]_vars

\* ------------------------------------------------------------ C8
Elems(seq) == { seq[i] : i \in 1..Len(seq) }

\* C8: on each page no candidate is applied to the peer connection unless the
\* connection has a remote description; while it has none, every candidate
\* received is held in iceQueue, and none is lost or applied twice.
C8_NoCandidateBeforeRemote ==
  \A p \in Pages :
    /\ ep[p].applied # << >> => ep[p].remote
    /\ (ep[p].sock = "connected" /\ ~ep[p].remote) =>
         Elems(ep[p].iceQueue) = 1..ep[p].nCand
    /\ ep[p].sock = "connected" =>
         /\ Elems(ep[p].iceQueue) \cup Elems(ep[p].applied) = 1..ep[p].nCand
         /\ Len(ep[p].iceQueue) + Len(ep[p].applied) = ep[p].nCand

\* a candidate that waited in iceQueue has been applied
C8_Witness ==
  \E p \in Pages :
    ep[p].remote /\ ep[p].held \cap Elems(ep[p].applied) # {}

\* ------------------------------------------------------------ C9
\* C9: on each page candidates are applied in the order in which they
\* arrived (candidates are numbered by arrival).
C9_AppliedInArrivalOrder ==
  \A p \in Pages :
    \A i \in 1..Len(ep[p].applied) : \A j \in 1..Len(ep[p].applied) :
      i < j => ep[p].applied[i] < ep[p].applied[j]

\* ------------------------------------------------------------ C10
Stable(p) == ep[p].local /\ ep[p].remote /\ ep[p].sig = "stable"

SessionEstablished ==
  /\ \A p \in Pages : ep[p].gotReady /\ Stable(p)
  /\ ep["mobile"].sentOffer = 1 /\ ep["mobile"].sentAnswer = 0
  /\ ep["laptop"].sentAnswer = 1 /\ ep["laptop"].sentOffer = 0

\* C10: when the mobile page joins as responder and the laptop page joins the
\* same room as initiator, in either order, and neither disconnects, then
\* eventually both have received their ready event, the mobile has sent one
\* offer, the laptop one answer, and both have local and remote descriptions
\* set in signalling state stable, and stay so.
C10_SessionReachesStable == <>[]SessionEstablished

C10_Witness == SessionEstablished

\* ------------------------------------------------------------ C11
\* the events of kind ev that page p has emitted
SentBy(p, ev) == { i \in 1..Len(c2s[p]) : c2s[p][i].ev = ev }

OfferRuns(p) == { t \in ep[p].tasks : t.h = "neg" }

\* C11: the laptop page (initiator) never creates or sends an offer; the
\* mobile page (responder) creates an offer only with its tracks added to the
\* connection and after it has received laptop-ready.
C11_OfferDirection ==
  /\ ep["laptop"].sentOffer = 0
  /\ SentBy("laptop", "offer") = {}
  /\ OfferRuns("laptop") = {} /\ ~ep["laptop"].negPending
  /\ (OfferRuns("mobile") # {} \/ ep["mobile"].negPending) =>
       /\ ep["mobile"].gotReady
       /\ ep["mobile"].stream /\ ep["mobile"].tracksAdded
  /\ (ep["mobile"].sentOffer > 0 \/ SentBy("mobile", "offer") # {}) =>
       ep["mobile"].gotReady

\* the mobile page has sent an offer
C11_Witness ==
  /\ ep["mobile"].sentOffer = 1
  /\ SentBy("mobile", "offer") # {}

\* ------------------------------------------------------------ C12
\* the offers of page p that are being generated or are sent and unanswered
Outstanding(p) ==
  Cardinality(OfferRuns(p)) + (IF ep[p].sig = "have-local-offer" THEN 1 ELSE 0)

\* C12: a page never has two offers outstanding: while an offer is being
\* generated (createOffer / setLocalDescription pending) or is sent and not
\* yet answered, no other offer is being generated.
C12_OneOfferOutstanding ==
  \A p \in Pages :
    /\ Outstanding(p) <= 1
    /\ OfferRuns(p) # {} => ep[p].makingOffer

\* an offer is sent and unanswered, and a laptop-ready received since then
\* has produced no other offer
C12_Witness ==
  /\ ep["mobile"].sig = "have-local-offer"
  /\ ep["mobile"].sentOffer = 1
  /\ ep["mobile"].offerDue
  /\ OfferRuns("mobile") = {}

\* ------------------------------------------------------------ C13
\* the page has no peer connection, no negotiation state and no local media
TornDown(s) ==
  /\ s.pc = "none" /\ s.sig = "stable"
  /\ ~s.local /\ ~s.remote
  /\ ~s.stream /\ ~s.tracksAdded

\* C13: the step in which a page handles peer-disconnected, and equally the
\* step in which its transport closes, leaves the page without peer
\* connection, without negotiation state and without local media, whatever
\* state it was in.
C13_TeardownOnDisconnect ==
  [][ \A p \in Pages :
        (\/ TransportCloses(p)
         \/ Receive(p) /\ Head(s2c[p]).ev = "peer-disconnected")
          => TornDown(ep'[p]) ]_vars

\* ------------------------------------------------------------ C14
\* the codes that are not a non-empty string
NotNonEmptyString == { r \in RawCodes : r.t # "string" \/ r.s = << >> }

\* C14: a join whose code is not a non-empty string changes neither the
\* registry nor any connection's binding and sends nothing.
C14_InvalidJoinIgnored ==
  [][ \A c \in Conns :
        sock[c].st = "connected" =>
          \A role \in Roles, roomId \in NotNonEmptyString :
            join(c, role, roomId) =>
              /\ rooms' = rooms
              /\ sock' = sock
              /\ emitted' = << >> ]_vars

\* a paired room, and the last handler run sent nothing: the state an
\* ignored join of one of the pair leaves
C14_Witness ==
  /\ emitted = << >>
  /\ \E n \in DOMAIN rooms :
       /\ rooms[n].laptop # NoId /\ rooms[n].mobile # NoId
       /\ rooms[n].laptop # rooms[n].mobile
       /\ sock[rooms[n].laptop].st = "connected"
       /\ sock[rooms[n].laptop].roomId = Str(n)

\* ------------------------------------------------------------ C15
\* every message of the step goes to the acting connection c or to a
\* connection bound to room binding r
DeliveredWithin(c, r) ==
  \A i \in 1..Len(emitted') :
    emitted'[i].to # c => sock'[emitted'[i].to].roomId = r

\* the step changes the slots of no room other than r
SlotsKeptOutside(r) ==
  \A n \in (DOMAIN rooms) \cup (DOMAIN rooms') :
    Str(n) # r => /\ n \in DOMAIN rooms /\ n \in DOMAIN rooms'
                  /\ rooms'[n] = rooms[n]

\* C15: a join changes slots only of the room it joins and sends only to
\* connections bound to that room; a relay, control command or disconnect
\* changes slots only of the room its connection is bound to and sends only
\* to connections bound to that room.
C15_RoomsIsolated ==
  [][ \A c \in Conns :
        /\ (\E role \in Roles, roomId \in AllCodes : join(c, role, roomId)) =>
             /\ DeliveredWithin(c, sock'[c].roomId)
             /\ SlotsKeptOutside(sock'[c].roomId)
        /\ (\/ \E ev \in RelayEvents, p \in Payloads : relay(c, ev, p)
            \/ \E ev \in ControlEvents, p \in Payloads : control(c, ev, p)
            \/ disconnect(c)) =>
             /\ DeliveredWithin(c, sock[c].roomId)
             /\ SlotsKeptOutside(sock[c].roomId) ]_vars

\* ------------------------------------------------------------ C16
LowerChar(ch) ==
  CASE ch = "A" -> "a"
    [] ch = "B" -> "b"
    [] OTHER    -> ch

\* a code without its surrounding white space, letters in lower case
Fold(str) == [i \in 1..Len(trim(str)) |-> LowerChar(trim(str)[i])]

\* the valid codes that differ from roomId at most in letter case and in
\* surrounding white space
SameCodeAs(roomId) ==
  { r \in AllCodes : ValidCode(r) /\ Fold(r.s) = Fold(roomId.s) }

\* C16: a join resolves to the room that every code differing from its own
\* only in letter case or surrounding white space resolves to: the joiner is
\* bound to that room and holds its slot there, and when another connection
\* holds the other role of that room, the two are paired (each is sent a
\* ready event).
C16_CodesNormalized ==
  [][ \A c \in Conns : \A roomId \in JoinsOfStep(c) :
        \A r \in SameCodeAs(roomId) :
          LET n == NormalizedCode[r]
              role == sock'[c].role
              o == IF n \in DOMAIN rooms THEN rooms[n][OtherRole(role)] ELSE NoId
          IN  /\ sock'[c].roomId = Str(n)
              /\ n \in DOMAIN rooms' /\ rooms'[n][role] = c
              /\ (o # NoId /\ o # c) =>
                   /\ CountMsgs(emitted', c, ReadyEvents) >= 1
                   /\ CountMsgs(emitted', o, ReadyEvents) >= 1 ]_vars

\* two connections have just been paired in room "A", which no code of
\* RawCodes names as written
C16_Witness ==
  /\ Str(<<"A">>) \notin RawCodes
  /\ <<"A">> \in DOMAIN rooms
  /\ LET l == rooms[<<"A">>].laptop
         m == rooms[<<"A">>].mobile
     IN  /\ l # NoId /\ m # NoId /\ l # m
         /\ CountMsgs(emitted, l, ReadyEvents) = 1
         /\ CountMsgs(emitted, m, ReadyEvents) = 1

\* ------------------------------------------------------------ C17
ControlRuns(s) == { t \in s.tasks : t.h = "control" }

\* a step of a control handler of page p: the receipt of the command or one
\* of its awaits settling
ControlStep(p) ==
  /\ ControlRuns(ep'[p]) # ControlRuns(ep[p])
  /\ \/ Receive(p) /\ Head(s2c[p]).ev \in ControlEvents
     \/ \E t \in ControlRuns(ep[p]) :
          \/ \E ok \in BOOLEAN : GetCameraSettles(p, t, ok)
          \/ ReplaceVideoSettles(p, t)
          \/ ReplaceAudioSettles(p, t)

\* C17: no step of a flip-camera or change-quality handler of the mobile
\* page sends anything, starts an offer or changes the signalling state or the
\* descriptions (a responder in Stable stays in Stable), and the settled
\* replaceTrack leaves the sender with the track of the new stream.
C17_ControlKeepsSession ==
  [][ ControlStep("mobile") =>
        /\ c2s' = c2s
        /\ ep'["mobile"].sig = ep["mobile"].sig
        /\ ep'["mobile"].local = ep["mobile"].local
        /\ ep'["mobile"].remote = ep["mobile"].remote
        /\ ep'["mobile"].sentOffer = ep["mobile"].sentOffer
        /\ ep'["mobile"].negPending = ep["mobile"].negPending
        /\ OfferRuns("mobile")' = OfferRuns("mobile")
        /\ (Stable("mobile") => Stable("mobile")')
        /\ \A t \in ControlRuns(ep["mobile"]) :
             ReplaceVideoSettles("mobile", t) => ep'["mobile"].outTrack = t.id ]_vars

\* the mobile page is in Stable and sends the track of a stream that a
\* control command acquired
C17_Witness ==
  /\ Stable("mobile")
  /\ ep["mobile"].sentOffer = 1
  /\ ep["mobile"].outTrack = 1
  /\ ControlRuns(ep["mobile"]) = {}

\* ------------------------------------------------------------ C18
\* nothing is on its way to page p and none of its handlers is suspended
Quiescent(p) == ep[p].tasks = {} /\ s2c[p] = << >>

\* the runs of the offer handler that are past setRemoteDescription
PastSetRemote(p) ==
  { t \in ep[p].tasks : t.h = "offer" /\ t.at \in {"addIce", "createAnswer", "setLocal"} }

\* the offer handler sets the remote description before it creates its
\* answer, and an answer is sent only with both descriptions set
AnswerAfterDescriptions ==
  /\ PastSetRemote("laptop") # {} => ep["laptop"].remote
  /\ (ep["laptop"].sentAnswer > 0 /\ ep["laptop"].sock # "closed") =>
       ep["laptop"].local /\ ep["laptop"].remote
  /\ Cardinality(SentBy("laptop", "answer")) = ep["laptop"].sentAnswer

C19_ReadyStartsOffer ==
  (/\ Quiescent("mobile")
   /\ ep["mobile"].sock = "connected"
   /\ ~ep["mobile"].negPending)
    => ~ep["mobile"].offerDue

\* ------------------------------------------------------------ C20
\* C20: a join that leaves the joiner in both slots of its room sends no
\* ready event, and no relayed message is delivered to its own sender.
C20_NeverOwnCounterpart ==
  [][ \A c \in Conns :
        /\ \A roomId \in JoinsOfStep(c) :
             LET n == NormalizedCode[roomId]
             IN  (rooms'[n].laptop = c /\ rooms'[n].mobile = c) =>
                   emitted' = << >>
        /\ \A ev \in RelayEvents, p \in Payloads :
             relay(c, ev, p) =>
               \A i \in 1..Len(emitted') : emitted'[i].to # c ]_vars

\* ------------------------------------------------------------ C21
\* C21: the handling of an offer, answer or candidate of page p changes no
\* state of the server, emits at most that one message, and either drops it
\* or puts it, in the same step, behind everything already on its way to the
\* other page: two messages of one sender reach its counterpart in the order
\* in which they were sent, and none is held back.
C21_RelayKeepsOrder ==
  [][ \A p \in Pages :
        (c2s[p] # << >> /\ Head(c2s[p]).ev \in RelayEvents /\ ServerHandles(p)) =>
          LET m == Head(c2s[p])
          IN  /\ rooms' = rooms /\ sock' = sock
              /\ s2c'[p] = s2c[p]
              /\ \A q \in Pages \ {p} :
                   IF emitted' = << >>
                   THEN s2c'[q] = s2c[q]
                   ELSE /\ emitted' = << Msg(connOf[q], m.ev, m.payload) >>
                        /\ s2c'[q] = Append(s2c[q], Ev(m.ev, m.payload)) ]_vars

\* an offer and, behind it, a candidate of the same sender are on their way
\* to the laptop page
C21_Witness ==
  /\ Len(s2c["laptop"]) >= 2
  /\ s2c["laptop"][1].ev = "offer"
  /\ s2c["laptop"][2].ev = "ice-candidate"

\* ------------------------------------------------------------ C22
\* the descriptions and the signalling state of page p's connection
Negotiation(s) == <<s.pc, s.sig, s.local, s.remote, s.curRemote>>

\* C22: when an addIceCandidate call of the drain loop rejects, the
\* descriptions and the signalling state stay as they are, the handler run
\* goes on (with the next queued candidate, which is applied next, or with
\* what follows the loop), and no candidate is dropped; and once the handlers
\* of a page whose connection has its remote description have finished, no
\* candidate is left in iceQueue: every candidate received was applied.
C22_CandidateFailureSwallowed ==
  /\ [][ \A p \in Pages : \A t \in ep[p].tasks :
           AddIceSettles(p, t, FALSE) =>
             /\ Negotiation(ep'[p]) = Negotiation(ep[p])
             /\ ep'[p].nCand = ep[p].nCand
             /\ IF ep[p].iceQueue # << >>
                THEN /\ ep'[p].iceQueue = Tail(ep[p].iceQueue)
                     /\ ep'[p].applied = Append(ep[p].applied, Head(ep[p].iceQueue))
                     /\ \E u \in ep'[p].tasks : u.id = t.id /\ u.h = t.h /\ u.at = "addIce"
                ELSE /\ ep'[p].applied = ep[p].applied
                     /\ t.h = "offer" =>
                          \E u \in ep'[p].tasks : u.id = t.id /\ u.at = "createAnswer" ]_vars
  /\ [](\A p \in Pages :
          (Quiescent(p) /\ ep[p].sock = "connected" /\ ep[p].remote) =>
            /\ ep[p].iceQueue = << >>
            /\ Elems(ep[p].applied) = 1..ep[p].nCand)

\* after a rejected call the page went on: its handlers have finished, a
\* candidate that waited in iceQueue behind others was applied, as was one
\* that arrived later, and the remote description is still set
C22_Witness ==
  \E p \in Pages :
    /\ ep[p].addFailed /\ Quiescent(p) /\ ep[p].remote
    /\ Cardinality(ep[p].held) >= 2 /\ ep[p].held \subseteq Elems(ep[p].applied)
    /\ Elems(ep[p].applied) \ ep[p].held # {}

\* ------------------------------------------------------------ C23
\* C23: a page that handles peer-disconnected stays connected to the server
\* (so that it keeps its slot, is told when a new counterpart joins, and can
\* negotiate again).
C23_SurvivorStaysConnected ==
  [][ \A p \in Pages :
        (Receive(p) /\ Head(s2c[p]).ev = "peer-disconnected")
          => ep'[p].sock = "connected" ]_vars

\* ------------------------------------------------------------ C24
\* C24: the registry holds no room under the empty code, and no connection is
\* bound to the empty code.
C24_NoEmptyCode ==
  /\ << >> \notin DOMAIN rooms
  /\ \A c \in Conns : sock[c].roomId # Str(<< >>)

\* ------------------------------------------------------------ C25
\* C25: a connection's identifier is in at most one role slot of the whole
\* registry, and that slot is the room and role the connection is bound to.
C25_OneSlotPerConnection ==
  \A c \in Conns :
    \A sl \in SlotsOf(rooms, c) :
      sock[c].roomId = Str(sl[1]) /\ sock[c].role = sl[2]

\* ------------------------------------------------------------ C26
\* C26: whenever the last pairing notification sent to a connected socket is
\* its ready event, the other role of the room it is bound to is held by a
\* different socket, and that socket is connected.
C26_ReadyMatchesRegistry ==
  \A c \in Conns :
    (sock[c].st = "connected" /\ lastPairing[c] = "ready") =>
      /\ sock[c].roomId.t = "string"
      /\ sock[c].roomId.s \in DOMAIN rooms
      /\ LET o == rooms[sock[c].roomId.s][OtherRole(sock[c].role)]
         IN  o # NoId /\ o # c /\ sock[o].st = "connected"

\* ------------------------------------------------------------ C27
\* C27: when the disconnect of connection c sends peer-disconnected to a
\* connection, c was until then the occupant of the role other than the
\* recipient's in the room the recipient is bound to; the disconnect of a
\* connection that holds no slot sends nothing.
C27_DisconnectedWasCounterpart ==
  [][ \A c \in Conns :
        disconnect(c) =>
          /\ \A i \in 1..Len(emitted') :
               LET to == emitted'[i].to
               IN  /\ sock[to].roomId.t = "string"
                   /\ sock[to].roomId.s \in DOMAIN rooms
                   /\ rooms[sock[to].roomId.s][OtherRole(sock[to].role)] = c
          /\ SlotsOf(rooms, c) = {} => emitted' = << >> ]_vars

\* ------------------------------------------------------------ C28
\* connection c is bound to a room in which it holds no slot
Displaced(c) ==
  /\ sock[c].st = "connected"
  /\ sock[c].roomId.t = "string"
  /\ sock[c].roomId.s \in DOMAIN rooms
  /\ \A r \in Roles : rooms[sock[c].roomId.s][r] # c

\* C28: an offer, answer, candidate or control command sent by a connection
\* that a later join has displaced from its slot is delivered to nobody.
C28_DisplacedReachesNobody ==
  [][ \A c \in Conns :
        Displaced(c) =>
          /\ \A ev \in RelayEvents, p \in Payloads :
               relay(c, ev, p) => emitted' = << >>
          /\ \A ev \in ControlEvents, p \in Payloads :
               control(c, ev, p) => emitted' = << >> ]_vars

\* ------------------------------------------------------------ C29
\* C29: once no handler of the mobile page is suspended and nothing is on its
\* way to it, every capture stream acquired has been stopped except the one
\* in streamRef; and after the teardown no stream at all is left unstopped.
C29_NoLeakedStream ==
  Quiescent("mobile") =>
    /\ cam.held = {} /\ cam.loose = 0
    /\ ep["mobile"].sock = "closed" => cam.active = NoStream

\* ------------------------------------------------------------ C30
\* C30: once the mobile page has processed every command it received (no
\* handler suspended, nothing on its way, no acquisition failed, session not
\* torn down), facingRef has been toggled once per flip-camera received,
\* qualityRef is the quality of the last change-quality received, and the
\* stream in streamRef was acquired with exactly these two.
C30_NoLostUpdate ==
  (/\ Quiescent("mobile") /\ ep["mobile"].sock = "connected"
   /\ ep["mobile"].pc = "open" /\ ~cam.failed) =>
    /\ cam.facing = (IF cam.flips = 1 THEN "environment" ELSE "user")
    /\ cam.quality = cam.lastQuality
    /\ cam.active = StreamOf(cam.facing, cam.quality)

====
